---------------------------- MODULE Spec2Model ----------------------------
(***************************************************************************)
(* A model of the search core of rottnest-rs:                              *)
(*   - AsyncReader::read_range            (src/src/formats/io.rs)          *)
(*   - get_tokenizer_async, search_substring_async, search_lava_substring  *)
(*   - search_bm25_async, search_lava_bm25 (src/src/lava/search.rs)        *)
(* Three specifications share the module: SpecRead (one read_range call),  *)
(* SpecSub (one search_lava_substring call) and SpecBm25 (one              *)
(* search_lava_bm25 call).                                                 *)
(***************************************************************************)
EXTENDS Integers, Sequences, FiniteSets, TLC

VARIABLES
    \* ---- AsyncReader::read_range ----
    file,       \* the backend's bytes: file[o + 1] is the byte at offset o
    from,       \* argument
    to,         \* argument
    current,    \* bytes received so far (io.rs:55)
    res,        \* the BytesMut being filled (io.rs:57)
    pos,        \* the reader's cursor, set by seek (io.rs:61)
    progress,   \* history: number of reads that delivered at least one byte
    rr_pc,      \* position in read_range, or its outcome
    \* ---- search_lava_substring / search_lava_bm25 ----
    files,      \* the index files queried together, files[file_id + 1]
    k,          \* argument
    pc,         \* position in the search
    outcome,    \* "running", "ok", or how the call failed
    result,     \* the pairs returned
    reads,      \* history: the range reads requested so far, in order
    \* ---- search_lava_substring ----
    encoding,   \* the ids the tokenizer gives the lowercased query
    query,      \* the ids left after the skip tokens are removed
    ti,         \* loop index of get_tokenizer_async (search.rs:26)
    file_id,    \* loop index of search_substring_async (search.rs:64)
    start,      \* search.rs:81
    end,        \* search.rs:82
    i,          \* query tokens not yet consumed (search.rs:85)
    ci,         \* chunk loop index (search.rs:122)
    all_uids,   \* search.rs:61
    intervals,  \* history: the final interval of each file searched
    first_empty,\* history: files whose first step gave start >= end, with
                \* the number of reads issued up to that step
    \* ---- search_lava_bm25 ----
    query_tokens,       \* argument
    query_weights,      \* argument, as integers
    bi,                 \* loop index of search_bm25_async (search.rs:183)
    total_token_counts, \* search.rs:175
    total_documents,    \* search.rs:179
    all_plist_offsets,  \* search.rs:180
    chunks_to_search,   \* search.rs:181, as the entries pushed, in order
    idf,                \* search.rs:174, scaled by 1000
    page_scores         \* search.rs:252, scaled by 1000

rvars == <<file, from, to, current, res, pos, progress, rr_pc>>

cvars == <<files, k, pc, outcome, result, reads>>

svars == <<encoding, query, ti, file_id, start, end, i, ci, all_uids,
           intervals, first_empty>>

bvars == <<query_tokens, query_weights, bi, total_token_counts,
           total_documents, all_plist_offsets, chunks_to_search, idf,
           page_scores>>

vars == <<file, from, to, current, res, pos, progress, rr_pc,
          files, k, pc, outcome, result, reads,
          encoding, query, ti, file_id, start, end, i, ci, all_uids,
          intervals, first_empty,
          query_tokens, query_weights, bi, total_token_counts,
          total_documents, all_plist_offsets, chunks_to_search, idf,
          page_scores>>

(***************************************************************************)
(* Bounds                                                                  *)
(***************************************************************************)
MaxFileLen == 3

Bytes == {0, 1}

Min(a, b) == IF a <= b THEN a ELSE b

(***************************************************************************)
(* AsyncReader::read_range                                                 *)
(***************************************************************************)
AllFiles == UNION {[1..n -> Bytes] : n \in 0..MaxFileLen}

Offsets == 0..(MaxFileLen + 2)

\* The outcomes of read_range.
ReadDone == {"ok", "err_invalid_data", "err_interrupted", "err_io"}

\* The variables of the searches, while none runs.
IdleSearch ==
    /\ files = <<>> /\ k = 0 /\ pc = "idle" /\ outcome = "idle"
    /\ result = {} /\ reads = <<>>
    /\ encoding = <<>> /\ query = <<>> /\ ti = 0 /\ file_id = 0
    /\ start = 0 /\ end = 0 /\ i = 0 /\ ci = 0 /\ all_uids = {}
    /\ intervals = <<>> /\ first_empty = {}

\* The variables of search_lava_bm25, while it does not run.
IdleBm25 ==
    /\ query_tokens = <<>> /\ query_weights = <<>> /\ bi = 0
    /\ total_token_counts = <<>> /\ total_documents = 0
    /\ all_plist_offsets = <<>> /\ chunks_to_search = <<>>
    /\ idf = <<>> /\ page_scores = <<>>

\* The variables of read_range, while the searches are modelled with
\* read_range as one step.
IdleRead ==
    /\ file = <<>> /\ from = 0 /\ to = 0 /\ current = 0 /\ res = <<>>
    /\ pos = 0 /\ progress = 0 /\ rr_pc = "idle"

InitRead ==
    /\ IdleSearch
    /\ IdleBm25
    /\ file \in AllFiles
    /\ from \in Offsets
    /\ to \in Offsets
    /\ current = 0
    /\ res = <<>>
    /\ pos = 0
    /\ progress = 0
    /\ rr_pc = "entry"

\* io.rs:48-57: the argument check and the set-up of the loop.
ReadRangeEnter ==
    /\ rr_pc = "entry"
    /\ IF from >= to
          THEN rr_pc' = "err_invalid_data"
          ELSE rr_pc' = "loop"
    /\ current' = 0
    /\ res' = <<>>
    /\ UNCHANGED <<file, from, to, pos, progress, cvars, svars, bvars>>

\* What the backend can deliver to a read_buf at cursor p into a buffer with
\* `spare` bytes of spare capacity: nothing at or past the end of the file,
\* otherwise at least one byte and at most what is there and what fits.
ReadSizes(p, spare) ==
    IF p >= Len(file) THEN {0}
    ELSE 1..Min(spare, Len(file) - p)

\* The cursor a retry seeks to (io.rs:61).
SeekBug(f, c) == f

SeekTarget(f, c) == f + c

\* io.rs:59-61: the loop test, split_off and the seek to from + current.
ReadRangeSeek ==
    /\ rr_pc = "loop"
    /\ current < to - from
    /\ pos' = SeekTarget(from, current)
    /\ rr_pc' = "seeked"
    /\ UNCHANGED <<file, from, to, current, res, progress, cvars, svars, bvars>>

\* io.rs:62-65: read_buf into the spare capacity, unsplit, advance.
ReadRangeReadBuf ==
    /\ rr_pc = "seeked"
    /\ \E size \in ReadSizes(pos, (to - from) - current) :
            /\ pos' = pos + size
            /\ res' = res \o [j \in 1..size |-> file[pos + j]]
            /\ current' = current + size
            /\ progress' = IF size > 0 THEN progress + 1 ELSE progress
    /\ rr_pc' = "loop"
    /\ UNCHANGED <<file, from, to, cvars, svars, bvars>>

\* io.rs:61-62: seek or read_buf fails and `?` returns the error.
ReadRangeIoError ==
    /\ rr_pc \in {"loop", "seeked"}
    /\ current < to - from
    /\ rr_pc' = "err_io"
    /\ UNCHANGED <<file, from, to, current, res, pos, progress, cvars, svars, bvars>>

\* io.rs:59, 68-72: the loop's exit, the length check and the result.
ReadRangeExit ==
    /\ rr_pc = "loop"
    /\ ~(current < to - from)
    /\ IF Len(res) < to - from
          THEN rr_pc' = "err_interrupted"
          ELSE rr_pc' = "ok"
    /\ UNCHANGED <<file, from, to, current, res, pos, progress, cvars, svars, bvars>>

NextRead ==
    \/ ReadRangeEnter
    \/ ReadRangeSeek
    \/ ReadRangeReadBuf
    \/ ReadRangeIoError
    \/ ReadRangeExit

SpecRead == InitRead /\ [][NextRead]_vars

\* The runtime keeps polling an awaited read_range call, so each of its steps
\* is eventually taken; the backend is not obliged to fail.
FairSpecRead ==
    /\ InitRead
    /\ [][NextRead]_vars
    /\ WF_vars(ReadRangeEnter)
    /\ WF_vars(ReadRangeSeek)
    /\ WF_vars(ReadRangeReadBuf)
    /\ WF_vars(ReadRangeExit)

(***************************************************************************)
(* Claims about read_range                                                 *)
(***************************************************************************)

\* C1: when read_range(from, to) returns Ok, it returns exactly to - from
\* bytes and they are the file's bytes at offsets from..to-1, in order,
\* whatever the pattern of short reads.
C1_ReadRangeExact ==
    rr_pc = "ok" =>
        /\ from < to
        /\ to <= Len(file)
        /\ Len(res) = to - from
        /\ \A j \in 1..Len(res) : res[j] = file[from + j]

\* A call that returned Ok after two or more partial reads.
C1_Witness ==
    /\ rr_pc = "ok"
    /\ progress >= 2
    /\ Len(res) >= 3

\* C2: read_range always terminates: every call eventually returns Ok or an
\* error (Interrupted when the backend keeps delivering too few bytes).
C2_ReadRangeTerminates == <>(rr_pc \in ReadDone)

(***************************************************************************)
(* Substring (FM-index) files                                              *)
(***************************************************************************)
MaxN == 5

\* The BWT positions of all the files queried together.
MaxTotalN == 6

\* The block size of the format (lava::constants), scaled down.
FM_CHUNK_TOKS == 4

\* The vocabulary of the tokenizer: ids 0 and 1 occur in the indexed text,
\* id 2 is what the tokenizer gives the characters of SKIP.
Vocab == {0, 1, 2}

TextTokens == {0, 1}

SkipTokens == {2}

Tokenizers == {"A", "B"}

KValues == {0, 1, 2}

QueryLens == {0, 1, 2}

FileCounts == {1, 2}

\* Documents span DocLen consecutive suffix-array positions.
DocLens == {1, 2}

\* A substring index: the compressed tokenizer bytes, the BWT and the uid of
\* every BWT position.
SubFiles(d) ==
    UNION {[tokenizer : Tokenizers,
            bwt : [1..n -> TextTokens],
            uids : {[p \in 1..n |-> (p - 1) \div d]}] : n \in 0..MaxN}

N(f) == Len(f.bwt)

NumChunks(f) == (N(f) + FM_CHUNK_TOKS - 1) \div FM_CHUNK_TOKS

\* The byte layout: [size][tokenizer][FM chunks][posting-list chunks]
\* [fm_chunk_offsets][posting_list_offsets][cumulative_counts][trailer].
\* Every compressed block is one byte long.
FmBase == 9

PlBase(f) == FmBase + NumChunks(f)

TablesBase(f) == PlBase(f) + NumChunks(f)

FileSize(f) == TablesBase(f) + 3 + 32

\* read_usize_from_end(4) (search.rs:65-69).
Trailer(f) == <<TablesBase(f), TablesBase(f) + 1, TablesBase(f) + 2, N(f)>>

\* The three tables as the index invariants state them: ceil(n / F) + 1
\* increasing offsets, and the C-table over the vocabulary.
FmChunkOffsets(f) == [j \in 1..(NumChunks(f) + 1) |-> FmBase + (j - 1)]

PostingListOffsets(f) == [j \in 1..(NumChunks(f) + 1) |-> PlBase(f) + (j - 1)]

CumulativeCounts(f) ==
    [t \in 1..Cardinality(Vocab) |->
        Cardinality({p \in 1..N(f) : f.bwt[p] < t - 1})]

\* The BWT slice stored in the FM chunk at bytes [sb, eb).
FmChunkAt(f, sb, eb) ==
    LET c == sb - FmBase
    IN SubSeq(f.bwt, c * FM_CHUNK_TOKS + 1, Min((c + 1) * FM_CHUNK_TOKS, N(f)))

\* The uids stored in posting-list chunk c.
PlistChunk(f, c) ==
    SubSeq(f.uids, c * FM_CHUNK_TOKS + 1, Min((c + 1) * FM_CHUNK_TOKS, N(f)))

\* FMChunk::search: the occurrences of token in positions [0, local_pos) of
\* the chunk.
FMSearch(chunk, token, local_pos) ==
    Cardinality({j \in 1..Min(local_pos, Len(chunk)) : chunk[j] = token})

\* v[idx] of a Rust Vec is in bounds.
InBounds(v, idx) == idx + 1 <= Len(v)

\* v[idx] of a Rust Vec, in bounds.
At(v, idx) == v[idx + 1]

Read(f, kind, a, b) == [file |-> f, kind |-> kind, from |-> a, to |-> b]

RECURSIVE FilterSkip(_)
\* search.rs:380-385: the ids that are no skip tokens, in order.
FilterSkip(ids) ==
    IF ids = <<>> THEN <<>>
    ELSE IF Head(ids) \in SkipTokens THEN FilterSkip(Tail(ids))
    ELSE <<Head(ids)>> \o FilterSkip(Tail(ids))

(***************************************************************************)
(* search_lava_substring                                                   *)
(***************************************************************************)
Encodings == UNION {[1..n -> Vocab] : n \in QueryLens}

RECURSIVE TotalN(_)
TotalN(fs) == IF fs = <<>> THEN 0 ELSE N(Head(fs)) + TotalN(Tail(fs))

FileLists ==
    UNION {{fs \in UNION {[1..c -> SubFiles(d)] : c \in FileCounts} :
                fs[1].tokenizer = "A" /\ TotalN(fs) <= MaxTotalN} :
           d \in DocLens}

InitSub ==
    /\ IdleRead
    /\ IdleBm25
    /\ files \in FileLists
    /\ encoding \in Encodings
    /\ k \in KValues
    /\ pc = "tokenizer"
    /\ outcome = "running"
    /\ result = {}
    /\ reads = <<>>
    /\ query = <<>>
    /\ ti = 0
    /\ file_id = 0
    /\ start = 0
    /\ end = 0
    /\ i = 0
    /\ ci = 0
    /\ all_uids = {}
    /\ intervals = <<>>
    /\ first_empty = {}

\* search.rs:26-37: one iteration of get_tokenizer_async: the size and the
\* bytes of the tokenizer of file ti are read and compared with the first
\* file's by assert!.
GetTokenizerStep ==
    /\ pc = "tokenizer"
    /\ ti < Len(files)
    /\ reads' = reads \o <<Read(ti, "tokenizer_size", 0, 8),
                           Read(ti, "tokenizer", 8, 9)>>
    /\ IF files[ti + 1].tokenizer = files[1].tokenizer
          THEN /\ ti' = ti + 1
               /\ UNCHANGED <<pc, outcome>>
          ELSE /\ pc' = "done"
               /\ outcome' = "panic_assert"
               /\ UNCHANGED ti
    /\ UNCHANGED <<files, k, result, encoding, query, file_id, start, end, i,
                   ci, all_uids, intervals, first_empty, rvars, bvars>>

\* search.rs:39-52 and 352-388: the tokenizer is built, the query is
\* lowercased, encoded and stripped of skip tokens, the readers are opened
\* again and search_substring_async starts.
EncodeQuery ==
    /\ pc = "tokenizer"
    /\ ti = Len(files)
    /\ query' = FilterSkip(encoding)
    /\ file_id' = 0
    /\ all_uids' = {}
    /\ pc' = "file"
    /\ UNCHANGED <<files, k, outcome, result, reads, encoding, ti, start, end,
                   i, ci, intervals, first_empty, rvars, bvars>>

\* search.rs:64-82: the trailer and the three tables of the next file are
\* read and the interval is set to [0, n).
OpenFile ==
    /\ pc = "file"
    /\ file_id < Len(files)
    /\ LET f == files[file_id + 1]
           results == Trailer(f)
       IN /\ reads' = reads \o
                <<Read(file_id, "trailer", FileSize(f) - 32, FileSize(f)),
                  Read(file_id, "fm_chunk_offsets", results[1], results[2]),
                  Read(file_id, "posting_list_offsets", results[2], results[3]),
                  Read(file_id, "cumulative_counts", results[3], FileSize(f) - 32)>>
          /\ start' = 0
          /\ end' = results[4]
    /\ i' = Len(query)
    /\ pc' = IF Len(query) = 0 THEN "after_search" ELSE "search"
    /\ UNCHANGED <<files, k, outcome, result, encoding, query, ti, file_id, ci,
                   all_uids, intervals, first_empty, rvars, bvars>>

StepStartBug(f, token, s, chunk) == FMSearch(chunk, token, s % FM_CHUNK_TOKS)

\* search.rs:97-100: the new start.
StepStart(f, token, s, chunk) ==
    At(CumulativeCounts(f), token) + FMSearch(chunk, token, s % FM_CHUNK_TOKS)

\* search.rs:101-104: the new end.
StepEnd(f, token, e, chunk) ==
    At(CumulativeCounts(f), token) + FMSearch(chunk, token, e % FM_CHUNK_TOKS)

\* search.rs:106 and 111: the interval holds no position.
IntervalEmptyBug(s, e) == s > e

IntervalEmpty(s, e) == s >= e

\* search.rs:85-109: one iteration of the backward search: the FM chunks of
\* start and of end are read, start and end are updated, and the loop breaks
\* when start >= end. Indexing a table out of bounds panics.
SearchStep ==
    /\ pc = "search"
    /\ i > 0
    /\ LET f == files[file_id + 1]
           current_token == query[i]
           fm == FmChunkOffsets(f)
           sc == start \div FM_CHUNK_TOKS
           ec == end \div FM_CHUNK_TOKS
           r1 == Read(file_id, "fm_chunk", At(fm, sc), At(fm, sc + 1))
           r2 == Read(file_id, "fm_chunk", At(fm, ec), At(fm, ec + 1))
       IN IF ~(InBounds(fm, sc) /\ InBounds(fm, sc + 1))
          THEN /\ pc' = "done"
               /\ outcome' = "panic_index"
               /\ UNCHANGED <<reads, start, end, i, first_empty>>
          ELSE IF ~(InBounds(fm, ec) /\ InBounds(fm, ec + 1))
          THEN /\ pc' = "done"
               /\ outcome' = "panic_index"
               /\ reads' = reads \o <<r1>>
               /\ UNCHANGED <<start, end, i, first_empty>>
          ELSE LET s2 == StepStart(f, current_token, start,
                                   FmChunkAt(f, r1.from, r1.to))
                   e2 == StepEnd(f, current_token, end,
                                 FmChunkAt(f, r2.from, r2.to))
               IN /\ reads' = reads \o <<r1, r2>>
                  /\ start' = s2
                  /\ end' = e2
                  /\ i' = i - 1
                  /\ first_empty' =
                        IF i = Len(query) /\ s2 >= e2
                           THEN first_empty \cup {<<file_id, Len(reads')>>}
                           ELSE first_empty
                  /\ pc' = IF IntervalEmpty(s2, e2) \/ i = 1 THEN "after_search"
                           ELSE "search"
                  /\ UNCHANGED outcome
    /\ UNCHANGED <<files, k, result, encoding, query, ti, file_id, ci,
                   all_uids, intervals, rvars, bvars>>

\* search.rs:111-121: an empty interval moves on to the next file; otherwise
\* the posting-list chunks of the interval are fetched in one range read.
AfterSearch ==
    /\ pc = "after_search"
    /\ intervals' = Append(intervals, <<start, end>>)
    /\ LET f == files[file_id + 1]
           plo == PostingListOffsets(f)
           sc == start \div FM_CHUNK_TOKS
           ec == end \div FM_CHUNK_TOKS
       IN IF IntervalEmpty(start, end)
          THEN /\ file_id' = file_id + 1
               /\ pc' = "file"
               /\ UNCHANGED <<outcome, reads, ci>>
          ELSE IF ~(InBounds(plo, sc) /\ InBounds(plo, ec + 1))
          THEN /\ pc' = "done"
               /\ outcome' = "panic_index"
               /\ UNCHANGED <<file_id, reads, ci>>
          ELSE /\ reads' = reads \o
                    <<Read(file_id, "plist", At(plo, sc), At(plo, ec + 1))>>
               /\ ci' = 0
               /\ pc' = "chunks"
               /\ UNCHANGED <<file_id, outcome>>
    /\ UNCHANGED <<files, k, result, encoding, query, ti, start, end, i,
                   all_uids, first_empty, rvars, bvars>>

\* search.rs:134-154: the part of chunk number ci of the span that lies in
\* [start, end): plist_chunk[lo..hi].
SliceBounds(s, e, total_chunks, c, len) ==
    IF c = 0
       THEN IF total_chunks = 1
               THEN <<s % FM_CHUNK_TOKS, e % FM_CHUNK_TOKS>>
               ELSE <<s % FM_CHUNK_TOKS, len>>
       ELSE IF c = total_chunks - 1
               THEN <<0, e % FM_CHUNK_TOKS>>
               ELSE <<0, len>>

EarlyStopBug(uids, bound) == FALSE

\* search.rs:156 and 160: the early termination test.
EarlyStop(uids, bound) == Cardinality(uids) > bound

\* search.rs:122-162: one iteration of the chunk loop: the chunk is cut out
\* of the bytes read, decoded, its uids in the interval are inserted, and
\* the search stops once more than k pairs are held.
ChunkStep ==
    /\ pc = "chunks"
    /\ LET f == files[file_id + 1]
           sc == start \div FM_CHUNK_TOKS
           total_chunks == end \div FM_CHUNK_TOKS - sc + 1
           plist_chunk == PlistChunk(f, sc + ci)
           b == SliceBounds(start, end, total_chunks, ci, Len(plist_chunk))
       IN IF b[1] > b[2] \/ b[2] > Len(plist_chunk)
          THEN /\ pc' = "done"
               /\ outcome' = "panic_index"
               /\ UNCHANGED <<all_uids, ci, file_id>>
          ELSE LET uids == all_uids \cup
                        {<<file_id, plist_chunk[j]>> : j \in (b[1] + 1)..b[2]}
               IN /\ all_uids' = uids
                  /\ UNCHANGED outcome
                  /\ IF EarlyStop(uids, k)
                        THEN /\ pc' = "return"
                             /\ UNCHANGED <<ci, file_id>>
                        ELSE IF ci + 1 < total_chunks
                        THEN /\ ci' = ci + 1
                             /\ UNCHANGED <<pc, file_id>>
                        ELSE /\ file_id' = file_id + 1
                             /\ pc' = "file"
                             /\ UNCHANGED ci
    /\ UNCHANGED <<files, k, result, reads, encoding, query, ti, start, end,
                   i, intervals, first_empty, rvars, bvars>>

\* search.rs:164: the pairs held are returned.
ReturnUids ==
    /\ \/ pc = "return"
       \/ pc = "file" /\ file_id = Len(files)
    /\ result' = all_uids
    /\ outcome' = "ok"
    /\ pc' = "done"
    /\ UNCHANGED <<files, k, reads, encoding, query, ti, file_id, start, end,
                   i, ci, all_uids, intervals, first_empty, rvars, bvars>>

NextSub ==
    \/ GetTokenizerStep
    \/ EncodeQuery
    \/ OpenFile
    \/ SearchStep
    \/ AfterSearch
    \/ ChunkStep
    \/ ReturnUids

SpecSub == InitSub /\ [][NextSub]_vars

(***************************************************************************)
(* Claims about search_lava_substring                                      *)
(***************************************************************************)
TokenizersDiffer == \E j \in 1..Len(files) : files[j].tokenizer # files[1].tokenizer

\* C3: over files whose tokenizer bytes differ, search_substring ends with
\* an error value of kind Inconsistent, and no trailer, table, FM-chunk or
\* posting-list read has been issued.
C3_InconsistentIsError ==
    (pc = "done" /\ TokenizersDiffer) =>
        /\ outcome = "err_inconsistent"
        /\ \A r \in 1..Len(reads) :
              reads[r].kind \in {"tokenizer_size", "tokenizer"}

\* The pairs at the positions of the final interval of every file searched.
Answer ==
    UNION {{<<f - 1, files[f].uids[p + 1]>> :
                p \in intervals[f][1]..(intervals[f][2] - 1)} :
           f \in 1..Len(intervals)}

StepTaken == pc = "search" /\ pc' \in {"search", "after_search"}

\* C8 as stated: the interval after a step is contained in the interval
\* before it.
C8_Contained ==
    [][StepTaken =>
          \A p \in start'..(end' - 1) : start <= p /\ p < end]_vars

\* C8 amended: the interval after a step is no wider than the interval
\* before it and lies within [0, n].
C8_NoWider ==
    [][StepTaken =>
          /\ end' - start' <= end - start
          /\ 0 <= start'
          /\ end' <= N(files[file_id + 1])]_vars

\* Two steps were taken on a file and the interval is not empty.
C8_Witness ==
    /\ pc \in {"search", "after_search"}
    /\ Len(query) - i >= 2
    /\ start < end

\* C9: start <= end holds after every backward-search step (and the loop
\* stops at the first step with start >= end).
C9_StartLeEnd == start <= end

\* C10 as stated: once the first step on a file gives start >= end, no
\* further read is issued and the search returns the empty vector.
C10_NoReadsEmptyResult ==
    \A m \in first_empty :
        /\ Len(reads) = m[2]
        /\ pc = "done" => (outcome = "ok" /\ result = {})

\* C10 amended: once the first step on a file gives start >= end, no
\* further read is issued on that file and no pair of that file is
\* returned; the search goes on with the next file, and with a single file
\* it returns the empty vector.
C10_NoReadsOnThatFile ==
    \A m \in first_empty :
        /\ \A r \in (m[2] + 1)..Len(reads) : reads[r].file # m[1]
        /\ \A u \in all_uids \cup result : u[1] # m[1]
        /\ (Len(files) = 1 /\ pc = "done") => (outcome = "ok" /\ result = {})

\* The first file's first step gave an empty interval and the second file
\* contributed pairs.
C10_Witness ==
    /\ pc = "done"
    /\ outcome = "ok"
    /\ \E m \in first_empty : m[1] = 0
    /\ result # {}

(***************************************************************************)
(* BM25 files                                                              *)
(***************************************************************************)
MaxQueryTokens == 2

BmTokens == {0, 1}

Weights == {0, 1}

\* The term-dict boundaries: the first token of each chunk, then the
\* vocabulary size as the sentinel.  The tables are non-decreasing: one has
\* an empty first chunk (a repeated value), one starts after token 0.
BoundaryTables == {<<0, 2>>, <<0, 1, 2>>, <<0, 0, 2>>, <<1, 2>>}

\* The documents of a file: num_documents, the term dictionary
\* token_counts[v + 1], and the postings of token v, postings[v + 1], as
\* <<uid, page_score>> pairs.
Contents ==
    {[num_documents |-> 2, token_counts |-> <<1, 2>>,
      postings |-> << << <<0, 1>> >>, << <<0, 1>>, <<1, 1>> >> >>],
     [num_documents |-> 2, token_counts |-> <<1, 2>>,
      postings |-> << << <<1, 0>> >>, << <<0, 2>>, <<1, 1>> >> >>],
     [num_documents |-> 2, token_counts |-> <<2, 0>>,
      postings |-> << << <<0, 1>>, <<1, 1>> >>, << >> >>],
     [num_documents |-> 1, token_counts |-> <<1, 1>>,
      postings |-> << << <<0, 1>> >>, << <<0, 2>> >> >>]}

\* Where the posting-list offsets table ends: "spec" right before the
\* trailer, "padded" compressed_plist_offsets_offset bytes before it;
\* "padded_odd" is a padded file whose table decodes to an odd length,
\* "spec_odd" a "spec" file whose table decodes to an odd length.
Layouts == {"spec", "spec_odd", "padded", "padded_odd"}

\* The posting-list offsets table of the file decodes to an odd length.
OddTable(f) == f.layout \in {"spec_odd", "padded_odd"}

BmFiles ==
    {[tokenizer |-> tk, num_documents |-> c.num_documents,
      token_counts |-> c.token_counts, boundaries |-> b,
      postings |-> c.postings, layout |-> l] :
        tk \in Tokenizers, c \in Contents, b \in BoundaryTables,
        l \in Layouts}

\* The byte layout: [size][tokenizer][posting-list chunks][term dictionary]
\* [posting-list offsets table][padding][trailer]; every compressed block
\* is one byte long.
BmChunkBase == 9

BmNumChunks(f) == Len(f.boundaries) - 1

BmTermDictOffset(f) == BmChunkBase + BmNumChunks(f)

BmPlistOffsetsOffset(f) == BmTermDictOffset(f) + 1

BmPadding(f) ==
    IF f.layout \in {"spec", "spec_odd"} THEN 0 ELSE BmPlistOffsetsOffset(f)

BmFileSize(f) == BmPlistOffsetsOffset(f) + 1 + BmPadding(f) + 24

\* read_usize_from_end(3) (search.rs:184-187).
BmTrailer(f) ==
    <<BmTermDictOffset(f), BmPlistOffsetsOffset(f), f.num_documents>>

\* The posting-list offsets table stored at [BmPlistOffsetsOffset,
\* BmPlistOffsetsOffset + 1): the chunk offsets with the end sentinel, then
\* the boundaries.
BmPlistOffsets(f) ==
    [j \in 1..(BmNumChunks(f) + 1) |-> BmChunkBase + (j - 1)]
        \o f.boundaries
        \o (IF OddTable(f) THEN <<0>> ELSE <<>>)

\* read_range_and_decompress(a, b) on the posting-list offsets table
\* (io.rs:76-88): read_range refuses a >= b, and zstd and bincode decode
\* only the whole compressed block.
ReadPlistOffsets(f, a, b) ==
    IF a >= b THEN "err_invalid_data"
    ELSE IF a = BmPlistOffsetsOffset(f) /\ b = BmPlistOffsetsOffset(f) + 1
         THEN "ok"
         ELSE "err_decode"

\* The end of the range read for the posting-list offsets table
\* (search.rs:208).
PlistOffsetsEnd(f) == BmFileSize(f) - BmPlistOffsetsOffset(f) - 24

\* slice::binary_search (search.rs:222): Ok(idx) for any idx holding tok,
\* else Err(idx) with idx the insertion point.
BinarySearch(b, tok) ==
    IF \E j \in 1..Len(b) : b[j] = tok
       THEN {<<"Ok", j - 1>> : j \in {j \in 1..Len(b) : b[j] = tok}}
       ELSE {<<"Err", Cardinality({j \in 1..Len(b) : b[j] < tok})>>}

\* search.rs:222-225: the chunk and the offset in it, or the panic of
\* idx - 1 at idx = 0.
Lookup(b, tok) ==
    {IF r[1] = "Ok" THEN <<r[2], 0>>
     ELSE IF r[2] = 0 THEN <<-1, 0>>
     ELSE <<r[2] - 1, tok - b[r[2]]>> : r \in BinarySearch(b, tok)}

\* search.rs:220-234: the lookups of all the query tokens in one file.
Lookups(b, toks) ==
    {found \in [1..Len(toks) -> UNION {Lookup(b, toks[q]) : q \in 1..Len(toks)}] :
        \A q \in 1..Len(toks) : found[q] \in Lookup(b, toks[q])}

RECURSIVE AddTokenCounts(_, _, _)
\* search.rs:197-202: token_counts[query_token] is added to the total of
\* every query token, in the order of the query.
AddTokenCounts(totals, toks, counts) ==
    IF toks = <<>> THEN totals
    ELSE AddTokenCounts(
            [totals EXCEPT ![Head(toks)] = @ + counts[Head(toks) + 1]],
            Tail(toks), counts)

\* ln(x), scaled by 1000, for x in 1..40.
LnTable ==
    <<0, 693, 1099, 1386, 1609, 1792, 1946, 2079, 2197, 2303,
      2398, 2485, 2565, 2639, 2708, 2773, 2833, 2890, 2944, 2996,
      3045, 3091, 3135, 3178, 3219, 3258, 3296, 3332, 3367, 3401,
      3434, 3466, 3497, 3526, 3555, 3584, 3611, 3638, 3664, 3689>>

\* search.rs:244-247: ln((N - cf + 0.5) / (cf + 0.5) + 1), which is
\* ln((2N + 2) / (2cf + 1)), scaled by 1000.
LnIdf(n_docs, cf) == LnTable[2 * n_docs + 2] - LnTable[2 * cf + 1]

\* The weight that search.rs:237-249 leaves in idf for token t: the one of
\* its last occurrence in the query.
LastWeight(toks, weights, t) ==
    weights[CHOOSE q \in 1..Len(toks) :
                /\ toks[q] = t
                /\ \A r \in (q + 1)..Len(toks) : toks[r] # t]

\* PListChunk::search_compressed: the postings stored at offset `offset` of
\* chunk `chunk_id`, those of token boundaries[chunk_id] + offset.
SearchCompressed(f, chunk_id, offset) ==
    f.postings[f.boundaries[chunk_id + 1] + offset + 1]

\* The offset addresses a token of the chunk.
InChunk(f, chunk_id, offset) ==
    /\ chunk_id + 1 <= BmNumChunks(f)
    /\ f.boundaries[chunk_id + 1] + offset < f.boundaries[chunk_id + 2]

RECURSIVE SumScores(_, _, _)
\* search.rs:273-282: what the <<uid, page_score>> pairs of one result add
\* to the score of uid.
SumScores(postings, uid, w) ==
    IF postings = <<>> THEN 0
    ELSE (IF Head(postings)[1] = uid THEN w * Head(postings)[2] ELSE 0)
            + SumScores(Tail(postings), uid, w)

RECURSIVE Accumulate(_, _, _)
\* search.rs:255-284: the score of (file_id, uid) after every entry of
\* chunks_to_search has been scored.
Accumulate(entries, pair, weights) ==
    IF entries = <<>> THEN 0
    ELSE LET e == Head(entries)
         IN (IF e.file = pair[1]
                THEN SumScores(SearchCompressed(files[e.file + 1], e.chunk,
                                                e.offset),
                               pair[2], weights[e.token])
                ELSE 0)
            + Accumulate(Tail(entries), pair, weights)

\* The keys of page_scores: the (file_id, uid) pairs of the postings scored.
ScoredPairs(entries) ==
    UNION {{<<entries[j].file, p[1]>> :
                p \in {SearchCompressed(files[entries[j].file + 1],
                                        entries[j].chunk,
                                        entries[j].offset)[x] :
                       x \in 1..Len(SearchCompressed(
                                        files[entries[j].file + 1],
                                        entries[j].chunk,
                                        entries[j].offset))}} :
           j \in 1..Len(entries)}

\* search.rs:288: the comparator of the sort, b.1.partial_cmp(&a.1).
ScoreOrdered(x, y) == x >= y

\* search.rs:287-288: the orders the sort can leave: the pairs come out of
\* the HashMap in any order and the stable sort compares scores only.
SortedOrders(scores) ==
    {s \in [1..Cardinality(DOMAIN scores) -> DOMAIN scores] :
        /\ \A a, b \in DOMAIN s : a # b => s[a] # s[b]
        /\ \A a, b \in DOMAIN s :
              a < b => ScoreOrdered(scores[s[a]], scores[s[b]])}

TakeBug(s, n) == SubSeq(s, 1, Min(n + 1, Len(s)))

\* search.rs:291: iter().take(k).
Take(s, n) == SubSeq(s, 1, Min(n, Len(s)))

(***************************************************************************)
(* search_lava_bm25                                                        *)
(***************************************************************************)
\* The lists of files queried together.  A file is opened only after the
\* files before it were read without error (search.rs:183-215), so a second
\* file follows only a first file whose offsets table can be read; the
\* files whose boundary table has a repeated value or starts after token 0
\* are queried alone.
BmFileLists ==
    {fs \in UNION {[1..c -> BmFiles] : c \in FileCounts} :
        /\ fs[1].tokenizer = "A"
        /\ Len(fs) > 1 =>
              /\ fs[1].layout = "padded"
              /\ \A j \in 1..Len(fs) :
                    fs[j].boundaries \in {<<0, 2>>, <<0, 1, 2>>}}

Range(s) == {s[j] : j \in 1..Len(s)}

\* search.rs:174-181: the state when the loop over the files starts.
InitBm25 ==
    /\ IdleRead
    /\ files \in BmFileLists
    /\ query_tokens \in UNION {[1..n -> BmTokens] : n \in 0..MaxQueryTokens}
    /\ query_weights \in [1..Len(query_tokens) -> Weights]
    /\ k \in KValues
    /\ pc = "bm_file"
    /\ outcome = "running"
    /\ result = <<>>
    /\ reads = <<>>
    /\ bi = 0
    /\ total_token_counts = [t \in Range(query_tokens) |-> 0]
    /\ total_documents = 0
    /\ all_plist_offsets = <<>>
    /\ chunks_to_search = <<>>
    /\ idf = <<>>
    /\ page_scores = <<>>
    /\ encoding = <<>> /\ query = <<>> /\ ti = 0 /\ file_id = 0
    /\ start = 0 /\ end = 0 /\ i = 0 /\ ci = 0 /\ all_uids = {}
    /\ intervals = <<>> /\ first_empty = {}

\* search.rs:183-234: one iteration of the loop over the files: the trailer
\* and the term dictionary are read, the token counts and the documents are
\* added up, the posting-list offsets table is read and checked for parity,
\* and the chunk of every query token is looked up.
BmOpenFile ==
    /\ pc = "bm_file"
    /\ bi < Len(files)
    /\ LET f == files[bi + 1]
           results == BmTrailer(f)
           r0 == Read(bi, "trailer", BmFileSize(f) - 24, BmFileSize(f))
           r1 == Read(bi, "term_dictionary", results[1], results[2])
           r2 == Read(bi, "plist_offsets", results[2], PlistOffsetsEnd(f))
           got == ReadPlistOffsets(f, r2.from, r2.to)
           plist_offsets == BmPlistOffsets(f)
           num_chunks == Len(plist_offsets) \div 2
           term_dict_len == SubSeq(plist_offsets, num_chunks + 1,
                                   Len(plist_offsets))
       IN /\ total_token_counts' =
                AddTokenCounts(total_token_counts, query_tokens,
                               f.token_counts)
          /\ total_documents' = total_documents + results[3]
          /\ IF got # "ok"
             THEN /\ pc' = "done"
                  /\ outcome' = got
                  /\ reads' = reads \o <<r0, r1, r2>>
                  /\ UNCHANGED <<bi, all_plist_offsets, chunks_to_search>>
             ELSE IF Len(plist_offsets) % 2 # 0
             THEN /\ pc' = "done"
                  /\ outcome' = "err_parse_data_corruption"
                  /\ reads' = reads \o <<r0, r1, r2>>
                  /\ UNCHANGED <<bi, all_plist_offsets, chunks_to_search>>
             ELSE \E found \in Lookups(term_dict_len, query_tokens) :
                    /\ reads' = reads \o <<r0, r1, r2>>
                    /\ IF \E q \in 1..Len(query_tokens) : found[q][1] < 0
                       THEN /\ pc' = "done"
                            /\ outcome' = "panic_index"
                            /\ UNCHANGED <<bi, all_plist_offsets,
                                           chunks_to_search>>
                       ELSE /\ chunks_to_search' = chunks_to_search \o
                                  [q \in 1..Len(query_tokens) |->
                                      [file |-> bi, chunk |-> found[q][1],
                                       token |-> query_tokens[q],
                                       offset |-> found[q][2]]]
                            /\ all_plist_offsets' =
                                  Append(all_plist_offsets, plist_offsets)
                            /\ bi' = bi + 1
                            /\ UNCHANGED <<pc, outcome>>
    /\ UNCHANGED <<files, k, result, query_tokens, query_weights, idf,
                   page_scores, svars, rvars>>

\* search.rs:236-249: the weighted IDF of every query token.
BmComputeIdf ==
    /\ pc = "bm_file"
    /\ bi = Len(files)
    /\ idf' = [t \in Range(query_tokens) |->
                  LastWeight(query_tokens, query_weights, t)
                    * LnIdf(total_documents, total_token_counts[t])]
    /\ pc' = "bm_score"
    /\ UNCHANGED <<files, k, outcome, result, reads, query_tokens,
                   query_weights, bi, total_token_counts, total_documents,
                   all_plist_offsets, chunks_to_search, page_scores, svars,
                   rvars>>

\* The range read of the chunk of an entry (search.rs:257-262).
ChunkRead(e) ==
    Read(e.file, "plist_chunk", all_plist_offsets[e.file + 1][e.chunk + 1],
         all_plist_offsets[e.file + 1][e.chunk + 2])

RECURSIVE ChunkReads(_, _)
\* The range reads of the loop over chunks_to_search, one for every
\* (file_id, chunk_id).
ChunkReads(entries, seen) ==
    IF entries = <<>> THEN <<>>
    ELSE LET g == <<Head(entries).file, Head(entries).chunk>>
         IN IF g \in seen THEN ChunkReads(Tail(entries), seen)
            ELSE <<ChunkRead(Head(entries))>>
                    \o ChunkReads(Tail(entries), seen \cup {g})

\* search.rs:251-284: every chunk to search is read and decoded and the
\* scores of its postings are added up.
BmScoreChunks ==
    /\ pc = "bm_score"
    /\ LET rs == ChunkReads(chunks_to_search, {})
       IN IF \E j \in 1..Len(rs) : rs[j].from >= rs[j].to
          THEN /\ pc' = "done"
               /\ outcome' = "err_invalid_data"
               /\ UNCHANGED <<reads, page_scores>>
          ELSE IF \E j \in 1..Len(chunks_to_search) :
                    ~InChunk(files[chunks_to_search[j].file + 1],
                             chunks_to_search[j].chunk,
                             chunks_to_search[j].offset)
          THEN /\ pc' = "done"
               /\ outcome' = "panic_unwrap"
               /\ reads' = reads \o rs
               /\ UNCHANGED page_scores
          ELSE /\ reads' = reads \o rs
               /\ page_scores' =
                    [pair \in ScoredPairs(chunks_to_search) |->
                        Accumulate(chunks_to_search, pair, idf)]
               /\ pc' = "bm_sort"
               /\ UNCHANGED outcome
    /\ UNCHANGED <<files, k, result, query_tokens, query_weights, bi,
                   total_token_counts, total_documents, all_plist_offsets,
                   chunks_to_search, idf, svars, rvars>>

\* search.rs:286-296: the pairs are sorted by descending score and the
\* first k are returned.
BmSortAndReturn ==
    /\ pc = "bm_sort"
    /\ \E page_scores_vec \in SortedOrders(page_scores) :
            result' = Take(page_scores_vec, k)
    /\ outcome' = "ok"
    /\ pc' = "done"
    /\ UNCHANGED <<files, k, reads, query_tokens, query_weights, bi,
                   total_token_counts, total_documents, all_plist_offsets,
                   chunks_to_search, idf, page_scores, svars, rvars>>

NextBm25 ==
    \/ BmOpenFile
    \/ BmComputeIdf
    \/ BmScoreChunks
    \/ BmSortAndReturn

SpecBm25 == InitBm25 /\ [][NextBm25]_vars

(***************************************************************************)
(* Claims about search_lava_bm25                                           *)
(***************************************************************************)

\* C4: a search over files whose embedded tokenizers differ does not
\* succeed: search_bm25 over such files never returns Ok.
C4_Bm25RejectsMismatch ==
    (pc = "done" /\ TokenizersDiffer) => outcome # "ok"

\* The (file_id, uid) pairs whose accumulated score is not zero.
NonZeroPairs == {p \in DOMAIN page_scores : page_scores[p] # 0}

\* C5 as stated: search_bm25 returns exactly min(k, P) results, P the
\* number of pairs whose accumulated score is non-zero, and never a pair
\* whose score is zero.
C5_ExactlyMinKNonZero ==
    (pc = "done" /\ outcome = "ok") =>
        /\ Len(result) = Min(k, Cardinality(NonZeroPairs))
        /\ \A j \in 1..Len(result) : result[j] \in NonZeroPairs

\* C5 as amended: search_bm25, when it returns Ok, returns exactly
\* min(k, P) distinct pairs, P the number of pairs that have an accumulated
\* score, the pairs whose score is zero included.
C5_ExactlyMinKScored ==
    (pc = "done" /\ outcome = "ok") =>
        /\ Len(result) = Min(k, Cardinality(DOMAIN page_scores))
        /\ \A j \in 1..Len(result) : result[j] \in DOMAIN page_scores
        /\ \A a, b \in 1..Len(result) : a # b => result[a] # result[b]

\* C5: a search that returns k >= 1 pairs, fewer than were scored, among
\* them a pair whose score is zero.
C5_Witness ==
    /\ pc = "done" /\ outcome = "ok"
    /\ k >= 1
    /\ Len(result) = k
    /\ Cardinality(DOMAIN page_scores) > k
    /\ \E j \in 1..Len(result) : page_scores[result[j]] = 0

\* The ascending order of (file_id, uid).
PairLess(a, b) == a[1] < b[1] \/ (a[1] = b[1] /\ a[2] < b[2])

\* C6: the list search_bm25 returns is ordered by descending score, and
\* pairs of equal score are in ascending (file_id, uid) order.
C6_DescendingThenAscendingPair ==
    (pc = "done" /\ outcome = "ok") =>
        \A a, b \in 1..Len(result) :
            a < b =>
                \/ page_scores[result[a]] > page_scores[result[b]]
                \/ /\ page_scores[result[a]] = page_scores[result[b]]
                   /\ PairLess(result[a], result[b])

\* C11: search_bm25 on a file whose posting-list offsets table, stored
\* between compressed_plist_offsets_offset and the trailer, decodes to an
\* odd length fails with Parse("data corruption") and with nothing else.
C11_OddTableIsDataCorruption ==
    (pc = "done" /\ bi < Len(files) /\ files[bi + 1].layout = "spec_odd") =>
        outcome = "err_parse_data_corruption"

\* C12: a query with k = 0 or with an empty token sequence is rejected with
\* InvalidInput: search_substring never returns Ok for it.
C12_OkOnlyForValidInput ==
    (pc = "done" /\ outcome = "ok") => (k >= 1 /\ Len(query) >= 1)

\* C13: for every query token t and every non-decreasing boundary table b,
\* the chunk selected is the largest index j with b[j] <= t, the offset in
\* the chunk is t - b[j], and the lookup never underflows or indexes out of
\* bounds.
C13_LargestBoundaryAtMostToken ==
    /\ outcome # "panic_index"
    /\ \A q \in 1..Len(chunks_to_search) :
          LET e == chunks_to_search[q]
              b == files[e.file + 1].boundaries
          IN /\ b[e.chunk + 1] <= e.token
             /\ \A j \in (e.chunk + 2)..Len(b) : b[j] > e.token
             /\ e.offset = e.token - b[e.chunk + 1]

\* C14: the posting-list offsets table of each file is read from exactly
\* the byte range [compressed_plist_offsets_offset, file_size - 24).
C14_PlistOffsetsRange ==
    \A r \in 1..Len(reads) :
        reads[r].kind = "plist_offsets" =>
            /\ reads[r].from = BmPlistOffsetsOffset(files[reads[r].file + 1])
            /\ reads[r].to = BmFileSize(files[reads[r].file + 1]) - 24

RECURSIVE SumDocuments(_)
\* The sum of num_documents over the files of the list fs.
SumDocuments(fs) ==
    IF fs = <<>> THEN 0
    ELSE Head(fs).num_documents + SumDocuments(Tail(fs))

RECURSIVE SumTokenCounts(_, _)
\* The sum of token_count[t] over the files of the list fs.
SumTokenCounts(fs, t) ==
    IF fs = <<>> THEN 0
    ELSE Head(fs).token_counts[t + 1] + SumTokenCounts(Tail(fs), t)

\* C15: when the IDF is computed, N is the sum of num_documents over all
\* files and cf_total(t) the sum of token_count[t] over all files, each file
\* counted once, whatever the query token list; and no posting has been
\* scored before.
C15_CountsSummedOncePerFile ==
    /\ pc = "bm_file" => page_scores = <<>>
    /\ pc = "bm_score" =>
          /\ page_scores = <<>>
          /\ total_documents =
                SumDocuments(files)
          /\ \A t \in Range(query_tokens) :
                total_token_counts[t] = SumTokenCounts(files, t)

\* The pairs held for the file with index f - 1.
PairsOf(f) == {u \in all_uids : u[1] = f - 1}

\* The posting-list entries of file f - 1 at the positions of its final
\* interval.
PostingsOf(f) ==
    {<<f - 1, files[f].uids[p + 1]>> :
        p \in intervals[f][1]..(intervals[f][2] - 1)}

\* C16: for a file whose final interval is not empty and for which early
\* termination does not trigger, the uids inserted are exactly the
\* posting-list entries at the positions start..end-1.
C16_ExactPostings ==
    (pc = "done" /\ ~EarlyStop(all_uids, k)) =>
        \A f \in 1..Len(intervals) :
            intervals[f][1] < intervals[f][2] => PairsOf(f) = PostingsOf(f)

\* C17: on an index whose tables have the stated lengths, and for a query
\* of in-vocabulary tokens, every table lookup of search_substring is within
\* bounds, also when end = n and n is a multiple of FM_CHUNK_TOKS: no search
\* ends with an index out of bounds.
C17_LookupsInBounds ==
    pc = "done" => outcome # "panic_index"

=============================================================================
